---- MODULE Spec2Model ----
(***************************************************************************)
(* FarmQ: the two assistant scripts FarmqDomainClassifier/app.py ("app")   *)
(* and FarmqDomain/farmq.py ("farmq").                                     *)
(*                                                                         *)
(* Texts are tuples of one-character strings, so that joining, stripping   *)
(* and the regular-expression split are computed character by character.   *)
(***************************************************************************)
EXTENDS Integers, Sequences, FiniteSets, TLC

\* An unset name is the empty tuple, a set one the 1-tuple of its value.
Nil == <<>>
Some(x) == <<x>>

\* ------------------------------------------------------------------ bounds
\* Largest length of " ".join(snippets) the summarizer runs are fed.
MaxInput == 7

\* ------------------------------------------------------------------ texts
\* Characters re's \s and str.strip() treat as whitespace.
Whitespace == {" ", "\t", "\n"}

IsSpace(c) == c \in Whitespace

\* The character class [.!?] of the split pattern.
IsPunct(c) == c \in {".", "!", "?"}

\* Characters the summarizer runs build their snippets from.
InputChars == {"a", ".", "?", " "}

\* "No concise summary found. Check links below."
FallbackMessage ==
  <<"N","o"," ","c","o","n","c","i","s","e"," ","s","u","m","m","a","r","y"," ",
    "f","o","u","n","d","."," ","C","h","e","c","k"," ","l","i","n","k","s"," ",
    "b","e","l","o","w",".">>

\* sep.join(parts)
RECURSIVE Join(_, _)
Join(parts, sep) ==
  IF parts = <<>> THEN <<>>
  ELSE IF Len(parts) = 1 THEN parts[1]
  ELSE parts[1] \o sep \o Join(Tail(parts), sep)

\* [s for s in snippets if s]
NonEmpty(snippets) == SelectSeq(snippets, LAMBDA s : s # <<>>)

\* not text.strip()
IsBlank(text) == \A i \in 1..Len(text) : IsSpace(text[i])

\* seq[1:n+1], the slice an off-by-one start would take.
TakeFromSecond(seq, n) ==
  SubSeq(seq, 2, IF Len(seq) < n + 1 THEN Len(seq) ELSE n + 1)

\* seq[:n]
Take(seq, n) == SubSeq(seq, 1, IF Len(seq) < n THEN Len(seq) ELSE n)

\* First index >= i of text that holds no whitespace (Len+1 if none): where a
\* greedy \s+ that starts at i stops.
RECURSIVE SkipSpace(_, _)
SkipSpace(text, i) ==
  IF i <= Len(text) /\ IsSpace(text[i]) THEN SkipSpace(text, i + 1) ELSE i

\* re.split(r'(?<=[.!?])\s+', text), scanning from index i with the current
\* piece starting at index start.
RECURSIVE SplitFrom(_, _, _)
SplitFrom(text, i, start) ==
  IF i > Len(text) THEN << SubSeq(text, start, Len(text)) >>
  ELSE IF i > 1 /\ IsPunct(text[i - 1]) /\ IsSpace(text[i])
       THEN << SubSeq(text, start, i - 1) >>
            \o SplitFrom(text, SkipSpace(text, i), SkipSpace(text, i))
       ELSE SplitFrom(text, i + 1, start)

ReSplit(text) == SplitFrom(text, 1, 1)

\* app.py build_summary_from_snippets
build_summary_from_snippets(snippets) ==
  LET joined == Join(NonEmpty(snippets), <<" ">>)
  IN  IF IsBlank(joined) THEN FallbackMessage
      ELSE Join(Take(ReSplit(joined), 3), <<" ">>)

\* farmq.py summarize
summarize(snippets) ==
  LET text == Join(snippets, <<" ">>)
  IN  Join(Take(ReSplit(text), 3), <<" ">>)

Summarizer(script, snippets) ==
  IF script = "app" THEN build_summary_from_snippets(snippets)
  ELSE summarize(snippets)

\* ------------------------------------------------------------------ state
VARIABLES
  snips,      \* the snippet list handed to the summarizer
  sumOut,     \* [by, text]: which script's summarizer ran and what it returned
  sumAgain,   \* what the same summarizer returned for [sumOut.text]
  script,             \* "app" (FarmqDomainClassifier/app.py) or "farmq" (FarmqDomain/farmq.py)
  SERPAPI_KEY,        \* whether os.getenv("SERPAPI_KEY") is set
  polly_client,       \* whether the Polly client was built (app.py)
  weights,            \* the weights of "all-MiniLM-L6-v2": what load_model() loads
  csv_file,           \* Agri_dataset.csv on disk: Nil, or Some([columns, rows])
  run,                \* the number of this script run (the script is run again for every interaction)
  pc,                 \* the statement the script run is at
  embedding_model,    \* st.cache_resource's copy of the model: Nil until loaded, kept across runs
  df_csv,             \* [columns, rows]
  AGRI_DOMAINS,       \* the dict, as its items in insertion order: [label, phrase]
  domain_names,
  domain_embeddings,
  user_q,
  translated,
  domain,             \* Nil, or Some(label)
  results,
  summary_en,
  summary_out,        \* summary_user_lang in app.py
  log,                \* this run's calls and outputs, in order
  crashedAt,          \* the call whose exception ended this run ("" if none)
  tablesRead,         \* the domain_embeddings table each classification of the process read
  computed            \* how many times the process computed domain_embeddings

sumVars == <<snips, sumOut, sumAgain>>

envVars == <<script, SERPAPI_KEY, polly_client, weights>>

globalVars == <<df_csv, AGRI_DOMAINS, domain_names, domain_embeddings>>

requestVars == <<user_q, translated, domain, results, summary_en, summary_out>>

vars == <<snips, sumOut, sumAgain, script, SERPAPI_KEY, polly_client, weights,
          csv_file, run, pc, embedding_model, df_csv, AGRI_DOMAINS, domain_names,
          domain_embeddings, user_q, translated, domain, results, summary_en,
          summary_out, log, crashedAt, tablesRead, computed>>

\* The names a script run starts without.
FreshRun ==
  /\ df_csv = [columns |-> <<>>, rows |-> <<>>]
  /\ AGRI_DOMAINS = <<>>
  /\ domain_names = <<>>
  /\ domain_embeddings = <<>>
  /\ user_q = <<>>
  /\ translated = <<>>
  /\ domain = Nil
  /\ results = <<>>
  /\ summary_en = <<>>
  /\ summary_out = <<>>
  /\ log = <<>>
  /\ crashedAt = ""

\* No script is running: the summarizer is called on its own.
NoScript ==
  /\ script = "app"
  /\ SERPAPI_KEY = FALSE
  /\ polly_client = FALSE
  /\ weights = [a |-> 0, b |-> 0]
  /\ csv_file = Nil
  /\ run = 0
  /\ pc = "done"
  /\ embedding_model = Nil
  /\ tablesRead = {}
  /\ computed = 0
  /\ FreshRun

scriptVars == <<script, SERPAPI_KEY, polly_client, weights, csv_file, run, pc,
                embedding_model, df_csv, AGRI_DOMAINS, domain_names,
                domain_embeddings, user_q, translated, domain, results,
                summary_en, summary_out, log, crashedAt, tablesRead, computed>>

\* ------------------------------------------------- summarizer on its own
RECURSIVE TotalLen(_)
TotalLen(snippets) ==
  IF snippets = <<>> THEN 0 ELSE Len(snippets[1]) + TotalLen(Tail(snippets))

\* len(" ".join(snippets))
JoinedLen(snippets) ==
  TotalLen(snippets) + (IF Len(snippets) = 0 THEN 0 ELSE Len(snippets) - 1)

SumInit ==
  /\ snips = <<>>
  /\ sumOut = Nil
  /\ sumAgain = Nil
  /\ NoScript

\* The caller's list grows by one (empty) fragment.
AddFragment ==
  /\ sumOut = Nil
  /\ JoinedLen(Append(snips, <<>>)) <= MaxInput
  /\ snips' = Append(snips, <<>>)
  /\ UNCHANGED <<sumOut, sumAgain, scriptVars>>

\* The caller's last fragment grows by one character.
AddChar ==
  /\ sumOut = Nil
  /\ snips # <<>>
  /\ JoinedLen(snips) < MaxInput
  /\ \E c \in InputChars :
       snips' = [snips EXCEPT ![Len(snips)] = Append(@, c)]
  /\ UNCHANGED <<sumOut, sumAgain, scriptVars>>

\* summary_en = build_summary_from_snippets(snippets)   (app.py)
AppSummarize ==
  /\ sumOut = Nil
  /\ sumOut' = Some([by |-> "app", text |-> build_summary_from_snippets(snips)])
  /\ UNCHANGED <<snips, sumAgain, scriptVars>>

\* summary_en = summarize(snippets)   (farmq.py)
FarmqSummarize ==
  /\ sumOut = Nil
  /\ sumOut' = Some([by |-> "farmq", text |-> summarize(snips)])
  /\ UNCHANGED <<snips, sumAgain, scriptVars>>

\* The summary is summarized again, as a one-fragment list.
Resummarize ==
  /\ sumOut # Nil
  /\ sumAgain = Nil
  /\ sumAgain' = Some(Summarizer(sumOut[1].by, << sumOut[1].text >>))
  /\ UNCHANGED <<snips, sumOut, scriptVars>>

SumNext ==
  \/ AddFragment
  \/ AddChar
  \/ AppSummarize
  \/ FarmqSummarize
  \/ Resummarize

SpecSum == SumInit /\ [][SumNext]_vars

\* ---------------------------------------------- the summarizer's contract
\* The text of the contract: the non-empty fragments, in order, one space apart.
ContractText(snippets) == Join(NonEmpty(snippets), <<" ">>)

\* The sentence boundaries of a text: the positions of a whitespace character
\* that directly follows '.', '!' or '?'.
Boundaries(text) ==
  {i \in 2..Len(text) : IsPunct(text[i - 1]) /\ IsSpace(text[i])}

\* The k-th boundary, counted from the left.
KthBoundary(text, k) ==
  CHOOSE i \in Boundaries(text) :
    Cardinality({j \in Boundaries(text) : j < i}) = k - 1

\* Where the whitespace that starts at boundary b ends: the next sentence's start.
AfterBoundary(text, b) ==
  CHOOSE j \in b..(Len(text) + 1) :
    /\ \A m \in b..(j - 1) : IsSpace(text[m])
    /\ j = Len(text) + 1 \/ ~IsSpace(text[j])

\* The k-th sentence of a text with n boundaries (k in 1..n+1).
Sentence(text, k) ==
  LET n     == Cardinality(Boundaries(text))
      first == IF k = 1 THEN 1 ELSE AfterBoundary(text, KthBoundary(text, k - 1))
      last  == IF k = n + 1 THEN Len(text) ELSE KthBoundary(text, k) - 1
  IN  SubSeq(text, first, last)

\* The first three sentences (all of them if fewer), one space apart.
FirstThreeSentences(text) ==
  LET n    == Cardinality(Boundaries(text))
      kept == IF n + 1 < 3 THEN n + 1 ELSE 3
  IN  Join([k \in 1..kept |-> Sentence(text, k)], <<" ">>)

\* C1: whenever the non-empty fragments join to an empty or whitespace-only
\* text, the summarizer of either script returns the fallback message.
C1_FallbackOnBlank ==
  (sumOut # Nil /\ IsBlank(ContractText(snips)))
    => sumOut[1].text = FallbackMessage

\* C2: whenever the fragments have non-blank content, the summarizer of either
\* script returns the first three sentences of the contract's text, one space
\* apart.
C2_FirstThreeSentences ==
  (sumOut # Nil /\ ~IsBlank(ContractText(snips)))
    => sumOut[1].text = FirstThreeSentences(ContractText(snips))

\* C3: summarizing a summary again, as a one-fragment list, returns it unchanged.
C3_Idempotent ==
  sumAgain # Nil => sumAgain[1] = sumOut[1].text

\* C3 witness: a summary that dropped a fourth sentence was summarized again.
C3_Witness ==
  /\ sumAgain # Nil
  /\ Cardinality(Boundaries(ContractText(snips))) >= 3
  /\ Len(sumOut[1].text) + 2 <= Len(ContractText(snips))

\* ------------------------------------------------------------ CategorySet
\* Rows Agri_dataset.csv may hold at most.
MaxRows == 2

\* Script runs (the first and the reruns) of one process.
MaxRuns == 2

Item(l, p) == [label |-> l, phrase |-> p]

\* AGRI_DOMAINS as the literal defines it.
BaseDomains(s) ==
  IF s = "app"
  THEN << Item("Soil", "soil quality, soil fertility, moisture, nutrients"),
          Item("Seed Quality", "seed germination, seed quality, seed planting"),
          Item("Irrigation", "water supply, irrigation, drought, flooding"),
          Item("Pests", "pest attacks, insects, locusts, pest management"),
          Item("Fertilizers", "fertilizer, nutrients, manure, chemical treatment"),
          Item("Diseases", "plant diseases, yellow leaves, fungus, infection"),
          Item("Weed Management", "weeds, invasive plants, grass, weed removal"),
          Item("Ambient Conditions", "weather, temperature, cold, heat, climate"),
          Item("General", "general agricultural questions") >>
  ELSE << Item("Soil", "soil fertility nutrients"),
          Item("Seed Quality", "seed germination quality"),
          Item("Irrigation", "water irrigation drought"),
          Item("Pests", "pests insects crop damage"),
          Item("Fertilizers", "fertilizer nutrients"),
          Item("Diseases", "plant diseases fungus"),
          Item("Weed Management", "weeds control"),
          Item("Ambient Conditions", "weather temperature climate"),
          Item("General", "general agriculture") >>

\* A cell of the table: a string, or NaN where the file leaves it empty.
TextCell(t) == [nan |-> FALSE, text |-> t]
NaNCell == [nan |-> TRUE, text |-> ""]

\* str(cell)
Str(cell) == IF cell.nan THEN "nan" ELSE cell.text

\* The Domain and Keywords cells the files of the model hold.
CsvLabels == {"Soil", "General", "Dairy"}
CsvCells == {TextCell("milk, cattle, fodder"), NaNCell}

\* The tables of up to MaxRows rows over these cells.
CsvRows ==
  UNION {[1..n -> {<<TextCell(l), c>> : l \in CsvLabels, c \in CsvCells}] : n \in 0..MaxRows}

\* Agri_dataset.csv: absent (read_csv raises), with the two columns, or with
\* another second column.
CsvFiles ==
  {Nil}
    \cup {Some([columns |-> <<"Domain", "Keywords">>, rows |-> r]) : r \in CsvRows}
    \cup {Some([columns |-> <<"Domain", "Notes">>,
                rows |-> << <<TextCell("Dairy"), TextCell("see annex")>> >>])}

\* row[name]
Cell(df, row, name) ==
  row[CHOOSE i \in 1..Len(df.columns) : df.columns[i] = name]

HasColumn(df, name) == \E i \in 1..Len(df.columns) : df.columns[i] = name

\* d[k] = v on a dict that appended the pair even when k is already a key.
DictAppend(d, k, v) == Append(d, Item(k, v))

\* d[k] = v on a dict kept as its items in insertion order: a present key keeps
\* its place and takes the value, a new key goes last.
DictSet(d, k, v) ==
  IF \E i \in 1..Len(d) : d[i].label = k
  THEN [i \in 1..Len(d) |-> IF d[i].label = k THEN Item(k, v) ELSE d[i]]
  ELSE Append(d, Item(k, v))

\* for _, row in df_csv.iterrows(): AGRI_DOMAINS[row["Domain"]] = str(row["Keywords"])
RECURSIVE ApplyRows(_, _, _)
ApplyRows(d, df, rows) ==
  IF rows = <<>> THEN d
  ELSE ApplyRows(DictSet(d, Cell(df, rows[1], "Domain").text,
                         Str(Cell(df, rows[1], "Keywords"))),
                 df, Tail(rows))

\* list(AGRI_DOMAINS.keys()), list(AGRI_DOMAINS.values())
Keys(d) == [i \in 1..Len(d) |-> d[i].label]
Values(d) == [i \in 1..Len(d) |-> d[i].phrase]

\* ------------------------------------------------------------- embeddings
\* The vectors the embedding model of the runs can return.
VecTable == << <<1, 0>>, <<2, 0>>, <<0, 1>>, <<1, 1>>, <<-1, 1>> >>

\* Every phrase a CategorySet of the runs can hold.
AllPhrases ==
  Values(BaseDomains("app")) \o Values(BaseDomains("farmq"))
    \o << "milk, cattle, fodder", "nan" >>

\* The questions of the runs and what the translator can make of them.
Kheti == <<"k", "h", "e", "t", "i">>
Translated(text) == <<"~">> \o text
AllQuestions == << Kheti, Translated(Kheti) >>

\* What the text area can hold when the button is read.
Questions == {<<>>, <<" ", "\n">>, Kheti}

\* The models load_model() can load: each a deterministic map from texts to vectors.
AllWeights == [a : 0..2, b : 0..2]

Vec(w, code) == VecTable[((w.a * code + w.b) % Len(VecTable)) + 1]

\* embedding_model.encode(phrase)
EncodePhrase(w, phrase) ==
  Vec(w, CHOOSE i \in 1..Len(AllPhrases) : AllPhrases[i] = phrase)

\* embedding_model.encode(question)
EncodeQuestion(w, text) ==
  Vec(w, Len(AllPhrases) + (CHOOSE i \in 1..Len(AllQuestions) : AllQuestions[i] = text))

\* embedding_model.encode(list of phrases)
EncodeAll(w, phrases) == [i \in 1..Len(phrases) |-> EncodePhrase(w, phrases[i])]

Dot(u, v) == u[1] * v[1] + u[2] * v[2]

Sign(x) == IF x > 0 THEN 1 ELSE IF x < 0 THEN -1 ELSE 0

\* util.cos_sim(u, v), kept exact: the cosine's sign times its square, as the
\* fraction <<numerator, denominator>>. It orders pairs as the cosine does.
CosSim(u, v) ==
  << Sign(Dot(u, v)) * Dot(u, v) * Dot(u, v), Dot(u, u) * Dot(v, v) >>

\* x < y for two such fractions (denominators are positive)
SimLess(x, y) == x[1] * y[2] < y[1] * x[2]

\* util.cos_sim(emb, domain_embeddings)[0]
CosSimRow(q, table) == [i \in 1..Len(table) |-> CosSim(q, table[i])]

\* The scan of an argmax: best is the index kept so far; a later entry replaces
\* it when it is greater (or, with lastWins, when it is not less).
RECURSIVE ArgMaxScan(_, _, _, _)
ArgMaxScan(sims, i, best, lastWins) ==
  IF i > Len(sims) THEN best
  ELSE ArgMaxScan(sims, i + 1,
                  IF SimLess(sims[best], sims[i])
                     \/ (lastWins /\ ~SimLess(sims[i], sims[best]))
                  THEN i ELSE best,
                  lastWins)

\* An argmax that returns the last of the maximal entries.
ArgMaxLast(sims) == ArgMaxScan(sims, 2, 1, TRUE)

\* sims.argmax(): the index of the first of the maximal entries
ArgMax(sims) == ArgMaxScan(sims, 2, 1, FALSE)

\* classify_domain(text), once the question is embedded
classify_domain(w, text, names, table) ==
  names[ArgMax(CosSimRow(EncodeQuestion(w, text), table))]

\* ---------------------------------------------------------------- services
\* What GoogleTranslator(...).translate(text) does: raises (Nil) or returns a
\* rendering of the text in the other language.
TranslatorReplies(text) == {Nil, Some(Translated(text))}

\* translate_text(text, src, dest), given the translator's reply
translate_text(text, reply) == IF reply = Nil THEN text ELSE reply[1]

\* num=5 of the search calls
Num == 5

Organic(t, l, u, sn) == [title |-> t, link |-> l, url |-> u, snippet |-> sn]

\* Entries a search response holds. A key the entry lacks reads as "" here:
\* the scripts read every key with .get and only test link and url for truth.
R1 == Organic("Paddy care", "https://a.example/1", "", <<"A", ".">>)
R2 == Organic("", "", "https://b.example/2", <<>>)
R3 == Organic("Sponsored", "", "", <<"C", "!">>)

Repeat(r, n) == [i \in 1..n |-> r]

OrganicLists ==
  { <<>>, <<R1>>, <<R3>>, <<R2, R1>>, <<R3, R3>>, <<R1, R3, R2>>,
    Repeat(R1, Num), Repeat(R1, Num + 1), <<R1, R3, R1, R2, R1, R2, R1>> }

\* What GoogleSearch(...).get_dict() does: raises (Nil) or returns a response.
SearchReplies ==
  {Nil}
    \cup {Some([organic_results |-> l, organic |-> <<>>]) : l \in OrganicLists}
    \cup {Some([organic_results |-> <<>>, organic |-> <<R2, R1>>])}

\* r.get("link") or r.get("url")
LinkOf(r) == IF r.link # "" THEN r.link ELSE r.url

\* serpapi_search without its filter on link and url.
serpapi_search_unfiltered(key, reply, num) ==
  IF ~key \/ reply = Nil THEN <<>>
  ELSE LET organic == IF reply[1].organic_results # <<>>
                      THEN reply[1].organic_results ELSE reply[1].organic
       IN  Take([i \in 1..Len(organic) |->
                   [title |-> organic[i].title, link |-> LinkOf(organic[i]),
                    snippet |-> organic[i].snippet]], num)

\* app.py serpapi_search(query, num), given the search service's reply
serpapi_search(key, reply, num) ==
  IF ~key \/ reply = Nil THEN <<>>
  ELSE LET organic == IF reply[1].organic_results # <<>>
                      THEN reply[1].organic_results ELSE reply[1].organic
           linked  == SelectSeq(organic, LAMBDA r : LinkOf(r) # "")
       IN  Take([i \in 1..Len(linked) |->
                   [title |-> linked[i].title, link |-> LinkOf(linked[i]),
                    snippet |-> linked[i].snippet]], num)

\* farmq.py serp_search(query), given the search service's reply: Nil when the
\* call raises, else Some(results).
serp_search(key, reply) ==
  IF ~key THEN Some(<<>>)
  ELSE IF reply = Nil THEN Nil
  ELSE Some(reply[1].organic_results)

\* [r.get("snippet", "") for r in results]
Snippets(rs) == [i \in 1..Len(rs) |-> rs[i].snippet]

\* " For more details, check the links above."
SpeakSuffix ==
  <<" ","F","o","r"," ","m","o","r","e"," ","d","e","t","a","i","l",
    "s",","," ","c","h","e","c","k"," ","t","h","e"," ","l","i","n",
    "k","s"," ","a","b","o","v","e",".">>

\* One entry of the run's log: the call, the text it was given, the text it
\* returned, a label (the domain, the kind of query, the target language), the
\* results it returned or was given, and how the service behind it answered.
Event(op, text, out, label, items, reply) ==
  [op |-> op, text |-> text, out |-> out, label |-> label, items |-> items,
   reply |-> reply]

\* How a service answered: it was not called, it raised, or it returned.
Answer(called, reply) ==
  IF ~called THEN "not called" ELSE IF reply = Nil THEN "raised" ELSE "returned"

\* ------------------------------------------------------------ a script run
Emit(e) == log' = Append(log, e)

\* embedding_model = load_model(): st.cache_resource loads the model in the
\* first run and hands the same object to every later one.
LoadModel ==
  /\ pc = "load_model"
  /\ embedding_model' = IF embedding_model = Nil THEN Some(weights) ELSE embedding_model
  /\ pc' = IF script = "app" THEN "read_csv" ELSE "define_domains"
  /\ UNCHANGED <<sumVars, envVars, csv_file, run, globalVars, requestVars, log,
                 crashedAt, tablesRead, computed>>

\* try: df_csv = pd.read_csv("Agri_dataset.csv")  except: df_csv = pd.DataFrame()
ReadCsv ==
  /\ pc = "read_csv"
  /\ df_csv' = IF csv_file = Nil THEN [columns |-> <<>>, rows |-> <<>>] ELSE csv_file[1]
  /\ pc' = "define_domains"
  /\ UNCHANGED <<sumVars, envVars, csv_file, run, embedding_model, AGRI_DOMAINS,
                 domain_names, domain_embeddings, requestVars, log, crashedAt,
                 tablesRead, computed>>

\* AGRI_DOMAINS = {...}
DefineDomains ==
  /\ pc = "define_domains"
  /\ AGRI_DOMAINS' = BaseDomains(script)
  /\ pc' = IF script = "app" THEN "augment" ELSE "encode_domains"
  /\ UNCHANGED <<sumVars, envVars, csv_file, run, embedding_model, df_csv,
                 domain_names, domain_embeddings, requestVars, log, crashedAt,
                 tablesRead, computed>>

\* if not df_csv.empty and "Domain" in df_csv.columns and "Keywords" in df_csv.columns
UsableCsv(df) ==
  /\ df.rows # <<>>
  /\ HasColumn(df, "Domain")
  /\ HasColumn(df, "Keywords")

\* The augmentation loop of app.py.
Augment ==
  /\ pc = "augment"
  /\ AGRI_DOMAINS' = IF UsableCsv(df_csv)
                     THEN ApplyRows(AGRI_DOMAINS, df_csv, df_csv.rows)
                     ELSE AGRI_DOMAINS
  /\ pc' = "encode_domains"
  /\ UNCHANGED <<sumVars, envVars, csv_file, run, embedding_model, df_csv,
                 domain_names, domain_embeddings, requestVars, log, crashedAt,
                 tablesRead, computed>>

\* domain_names = list(AGRI_DOMAINS.keys())
\* domain_embeddings = embedding_model.encode(list(AGRI_DOMAINS.values()), ...)
EncodeDomains ==
  /\ pc = "encode_domains"
  /\ domain_names' = Keys(AGRI_DOMAINS)
  /\ domain_embeddings' = EncodeAll(embedding_model[1], Values(AGRI_DOMAINS))
  /\ computed' = computed + 1
  /\ pc' = "ui"
  /\ UNCHANGED <<sumVars, envVars, csv_file, run, embedding_model, df_csv,
                 AGRI_DOMAINS, requestVars, log, crashedAt, tablesRead>>

\* if st.button("Get Solution") and user_q.strip():
GetSolution ==
  /\ pc = "ui"
  /\ \E q \in Questions, clicked \in BOOLEAN :
       /\ user_q' = q
       /\ pc' = IF clicked /\ ~IsBlank(q) THEN "translate" ELSE "done"
  /\ UNCHANGED <<sumVars, envVars, csv_file, run, embedding_model, globalVars,
                 translated, domain, results, summary_en, summary_out, log,
                 crashedAt, tablesRead, computed>>

\* translated = translate_text(user_q, src=..., dest="en")
TranslateQuestion ==
  /\ pc = "translate"
  /\ \E reply \in TranslatorReplies(user_q) :
       /\ translated' = translate_text(user_q, reply)
       /\ Emit(Event("translate", user_q, translate_text(user_q, reply), "en", <<>>,
                     Answer(TRUE, reply)))
  /\ pc' = "classify"
  /\ UNCHANGED <<sumVars, envVars, csv_file, run, embedding_model, globalVars,
                 user_q, domain, results, summary_en, summary_out, crashedAt,
                 tablesRead, computed>>

\* A classification that answers "General" when the embedding fails.
ClassifyWithDefault ==
  /\ pc = "classify"
  /\ \E encoded \in BOOLEAN :
       LET label == IF encoded
                    THEN classify_domain(embedding_model[1], translated,
                                         domain_names, domain_embeddings)
                    ELSE "General"
       IN  /\ domain' = Some(label)
           /\ log' = log \o << Event("encode", translated, <<>>, "", <<>>,
                                      IF encoded THEN "returned" ELSE "raised"),
                                Event("classify", translated, <<>>, label, <<>>,
                                      "returned") >>
           /\ tablesRead' = IF encoded THEN tablesRead \cup {domain_embeddings}
                            ELSE tablesRead
           /\ pc' = "search"
           /\ crashedAt' = crashedAt
  /\ UNCHANGED <<sumVars, envVars, csv_file, run, embedding_model, globalVars,
                 user_q, translated, results, summary_en, summary_out, computed>>

\* domain = classify_domain(translated): embedding_model.encode(question)
\* raises or returns; nothing in the script catches what it raises.
Classify ==
  /\ pc = "classify"
  /\ \E encoded \in BOOLEAN :
       IF encoded
       THEN LET label == classify_domain(embedding_model[1], translated,
                                         domain_names, domain_embeddings)
            IN  /\ domain' = Some(label)
                /\ log' = log \o << Event("encode", translated, <<>>, "", <<>>,
                                           "returned"),
                                     Event("classify", translated, <<>>, label, <<>>,
                                           "returned") >>
                /\ tablesRead' = tablesRead \cup {domain_embeddings}
                /\ pc' = "search"
                /\ crashedAt' = crashedAt
       ELSE /\ pc' = "crashed"
            /\ crashedAt' = "classify"
            /\ Emit(Event("encode", translated, <<>>, "", <<>>, "raised"))
            /\ UNCHANGED <<domain, tablesRead>>
  /\ UNCHANGED <<sumVars, envVars, csv_file, run, embedding_model, globalVars,
                 user_q, translated, results, summary_en, summary_out, computed>>

\* The first query, were it built from the question as typed.
FirstQueryOfTyped(s, typed, english, label) ==
  IF s = "app"
  THEN [kind |-> "boosters", text |-> typed, label |-> label]
  ELSE [kind |-> "agriculture", text |-> typed, label |-> ""]

\* app.py: f"{translated} {domain} {boosters}"; farmq.py: q_en + " agriculture"
FirstQuery(s, typed, english, label) ==
  IF s = "app"
  THEN [kind |-> "boosters", text |-> english, label |-> label]
  ELSE [kind |-> "agriculture", text |-> english, label |-> ""]

\* results = serpapi_search(...) (app.py) / serp_search(...) (farmq.py)
Search ==
  /\ pc = "search"
  /\ \E reply \in SearchReplies :
       LET q == FirstQuery(script, user_q, translated, domain[1])
       IN  IF script = "app"
           THEN LET rs == serpapi_search(SERPAPI_KEY, reply, Num)
                IN  /\ results' = rs
                    /\ Emit(Event("search", q.text, <<>>, q.kind, rs,
                                  Answer(SERPAPI_KEY, reply)))
                    /\ pc' = IF rs = <<>> THEN "search_fallback" ELSE "summarize"
                    /\ crashedAt' = crashedAt
           ELSE LET got == serp_search(SERPAPI_KEY, reply)
                IN  IF got = Nil
                    THEN /\ pc' = "crashed"
                         /\ crashedAt' = "search"
                         /\ Emit(Event("search", q.text, <<>>, q.kind, <<>>,
                                       Answer(SERPAPI_KEY, reply)))
                         /\ UNCHANGED results
                    ELSE /\ results' = got[1]
                         /\ Emit(Event("search", q.text, <<>>, q.kind, got[1],
                                       Answer(SERPAPI_KEY, reply)))
                         /\ pc' = "summarize"
                         /\ crashedAt' = crashedAt
  /\ UNCHANGED <<sumVars, envVars, csv_file, run, embedding_model, globalVars,
                 user_q, translated, domain, summary_en, summary_out,
                 tablesRead, computed>>

\* if not results: results = serpapi_search(f"{translated} agriculture {domain}", num=5)
FallbackSearch ==
  /\ pc = "search_fallback"
  /\ \E reply \in SearchReplies :
       LET rs == serpapi_search(SERPAPI_KEY, reply, Num)
       IN  /\ results' = rs
           /\ Emit(Event("search", translated, <<>>, "fallback", rs,
                         Answer(SERPAPI_KEY, reply)))
  /\ pc' = "summarize"
  /\ UNCHANGED <<sumVars, envVars, csv_file, run, embedding_model, globalVars,
                 user_q, translated, domain, summary_en, summary_out, crashedAt,
                 tablesRead, computed>>

\* summary_en = build_summary_from_snippets([...]) / summarize(snippets)
Summarize ==
  /\ pc = "summarize"
  /\ summary_en' = Summarizer(script, Snippets(results))
  /\ Emit(Event("summarize", <<>>, Summarizer(script, Snippets(results)), "",
                results, "returned"))
  /\ pc' = "translate_back"
  /\ UNCHANGED <<sumVars, envVars, csv_file, run, embedding_model, globalVars,
                 user_q, translated, domain, results, summary_out, crashedAt,
                 tablesRead, computed>>

\* summary_user_lang = translate_text(summary_en, src="en", dest=selected_lang_code)
TranslateSummary ==
  /\ pc = "translate_back"
  /\ \E reply \in TranslatorReplies(summary_en) :
       /\ summary_out' = translate_text(summary_en, reply)
       /\ Emit(Event("translate", summary_en, translate_text(summary_en, reply),
                     "user", <<>>, Answer(TRUE, reply)))
  /\ pc' = "display"
  /\ UNCHANGED <<sumVars, envVars, csv_file, run, embedding_model, globalVars,
                 user_q, translated, domain, results, summary_en, crashedAt,
                 tablesRead, computed>>

\* The summary box and the "Useful Links" list.
Display ==
  /\ pc = "display"
  /\ Emit(Event("display", summary_out, <<>>, domain[1], results, "returned"))
  /\ pc' = "speak"
  /\ UNCHANGED <<sumVars, envVars, csv_file, run, embedding_model, globalVars,
                 requestVars, crashedAt, tablesRead, computed>>

\* app.py: if polly_client: synthesize_polly_b64(f"{summary_user_lang} For more ...")
\* farmq.py: audio = speak(summary_out, out_lang_code)
\* Either synthesis may fail; both catch what it raises.
Speak ==
  /\ pc = "speak"
  /\ \E spoken \in BOOLEAN :
       log' = IF script = "app"
              THEN IF polly_client
                   THEN Append(log, Event("speak", summary_out \o SpeakSuffix, <<>>,
                                          "", <<>>,
                                          IF spoken THEN "returned" ELSE "raised"))
                   ELSE log
              ELSE Append(log, Event("speak", summary_out, <<>>, "", <<>>,
                                     IF spoken THEN "returned" ELSE "raised"))
  /\ pc' = "done"
  /\ UNCHANGED <<sumVars, envVars, csv_file, run, embedding_model, globalVars,
                 requestVars, crashedAt, tablesRead, computed>>

\* The user touches a widget: the script is run again from its first line, in
\* a fresh namespace; only the cached model outlives the run.
Rerun ==
  /\ pc \in {"done", "crashed"}
  /\ run < MaxRuns
  /\ run' = run + 1
  /\ pc' = "load_model"
  /\ df_csv' = [columns |-> <<>>, rows |-> <<>>]
  /\ AGRI_DOMAINS' = <<>>
  /\ domain_names' = <<>>
  /\ domain_embeddings' = <<>>
  /\ user_q' = <<>>
  /\ translated' = <<>>
  /\ domain' = Nil
  /\ results' = <<>>
  /\ summary_en' = <<>>
  /\ summary_out' = <<>>
  /\ log' = <<>>
  /\ crashedAt' = ""
  /\ UNCHANGED <<sumVars, envVars, csv_file, embedding_model, tablesRead, computed>>

\* Before a later run reads it, Agri_dataset.csv is removed or loses its last row.
EditCsvFile ==
  /\ pc = "load_model"
  /\ run > 1
  /\ script = "app"
  /\ csv_file # Nil
  /\ \E remove \in BOOLEAN :
       IF remove \/ csv_file[1].rows = <<>>
       THEN csv_file' = Nil
       ELSE csv_file' = Some([csv_file[1] EXCEPT
                                !.rows = SubSeq(@, 1, Len(@) - 1)])
  /\ UNCHANGED <<sumVars, envVars, run, pc, embedding_model, globalVars,
                 requestVars, log, crashedAt, tablesRead, computed>>

Step ==
  \/ LoadModel
  \/ ReadCsv
  \/ DefineDomains
  \/ Augment
  \/ EncodeDomains
  \/ GetSolution
  \/ TranslateQuestion
  \/ Classify
  \/ Search
  \/ FallbackSearch
  \/ Summarize
  \/ TranslateSummary
  \/ Display
  \/ Speak
  \/ Rerun
  \/ EditCsvFile

FirstRun ==
  /\ snips = <<>>
  /\ sumOut = Nil
  /\ sumAgain = Nil
  /\ run = 1
  /\ pc = "load_model"
  /\ embedding_model = Nil
  /\ tablesRead = {}
  /\ computed = 0
  /\ FreshRun

\* The files and models of the runs that go through the whole request.
SampleCsv ==
  Some([columns |-> <<"Domain", "Keywords">>,
        rows |-> << <<TextCell("Dairy"), TextCell("milk, cattle, fodder")>> >>])

\* Every environment of a request, with one table file and two models.
Init ==
  /\ FirstRun
  /\ script \in {"app", "farmq"}
  /\ SERPAPI_KEY \in BOOLEAN
  /\ polly_client \in (IF script = "app" THEN BOOLEAN ELSE {FALSE})
  /\ weights \in {w \in AllWeights : w.b = 0 /\ w.a > 0}
  /\ csv_file \in (IF script = "app" THEN {Nil, SampleCsv} ELSE {Nil})

Next == Step

Spec == Init /\ [][Next]_vars

\* Every table file and model; no search key and no speech client.
StartInit ==
  /\ FirstRun
  /\ script \in {"app", "farmq"}
  /\ SERPAPI_KEY = FALSE
  /\ polly_client = FALSE
  /\ weights \in AllWeights
  /\ csv_file \in (IF script = "app" THEN CsvFiles ELSE {Nil})

SpecStart == StartInit /\ [][Next]_vars

\* ------------------------------------------------------- the classifier
\* The category embedding the model gives the i-th entry of the CategorySet.
CategoryVec(i) == EncodePhrase(weights, AGRI_DOMAINS[i].phrase)

\* The similarity of the translated question to the i-th category.
QuestionSim(i) == CosSim(EncodeQuestion(weights, translated), CategoryVec(i))

\* The statements from which a run has its table of embeddings.
AfterEncode ==
  {"ui", "translate", "classify", "search", "search_fallback", "summarize",
   "translate_back", "display", "speak", "done", "crashed"}

\* C4: a classification returns a label of the CategorySet whose category has
\* the greatest cosine similarity to the question, the first such label in
\* insertion order; and row i of domain_embeddings is the embedding of the
\* phrase of the category domain_names[i] names.
C4_FirstMostSimilar ==
  LET vecs == [i \in 1..Len(AGRI_DOMAINS) |-> CategoryVec(i)]
  IN  /\ pc \in AfterEncode =>
           /\ Len(domain_names) = Len(AGRI_DOMAINS)
           /\ Len(domain_embeddings) = Len(AGRI_DOMAINS)
           /\ \A i \in 1..Len(AGRI_DOMAINS) :
                /\ domain_names[i] = AGRI_DOMAINS[i].label
                /\ domain_embeddings[i] = vecs[i]
      /\ domain # Nil =>
           LET q    == EncodeQuestion(weights, translated)
               sims == [i \in 1..Len(AGRI_DOMAINS) |-> CosSim(q, vecs[i])]
           IN  \E i \in 1..Len(AGRI_DOMAINS) :
                 /\ AGRI_DOMAINS[i].label = domain[1]
                 /\ \A j \in 1..Len(AGRI_DOMAINS) : ~SimLess(sims[i], sims[j])
                 /\ \A j \in 1..(i - 1) : SimLess(sims[j], sims[i])

\* C4 witness: a classification over an augmented CategorySet in which a later
\* category ties with the returned one, which is not the first category.
C4_Witness ==
  /\ domain # Nil
  /\ Len(AGRI_DOMAINS) > Len(BaseDomains(script))
  /\ domain[1] # AGRI_DOMAINS[1].label
  /\ \E i, j \in 1..Len(AGRI_DOMAINS) :
       /\ AGRI_DOMAINS[i].label = domain[1]
       /\ i < j
       /\ ~SimLess(QuestionSim(i), QuestionSim(j))
       /\ ~SimLess(QuestionSim(j), QuestionSim(i))
       /\ CategoryVec(i) # CategoryVec(j)

\* ------------------------------------------------------- the CategorySet
\* The rows the augmentation loop runs over.
AppliedRows == IF UsableCsv(df_csv) THEN df_csv.rows ELSE <<>>

RowLabel(k) == Cell(df_csv, AppliedRows[k], "Domain").text
RowPhrase(k) == Str(Cell(df_csv, AppliedRows[k], "Keywords"))

\* The statements from which a run has its final CategorySet.
AfterAugment == AfterEncode \cup {"encode_domains"}

\* C5: after augmentation the labels are unique, "General" is among them, the
\* base labels are where the literal put them, a label some row names has the
\* phrase of the last such row, and any other label has its base phrase.
C5_LastRowWins ==
  pc \in AfterAugment =>
    LET base == BaseDomains(script)
        d    == AGRI_DOMAINS
    IN  /\ \A i, j \in 1..Len(d) : d[i].label = d[j].label => i = j
        /\ \E i \in 1..Len(d) : d[i].label = "General"
        /\ Len(d) >= Len(base)
        /\ \A i \in 1..Len(base) : d[i].label = base[i].label
        /\ \A k \in 1..Len(AppliedRows) : \E i \in 1..Len(d) : d[i].label = RowLabel(k)
        /\ \A i \in 1..Len(d) :
             LET named == {k \in 1..Len(AppliedRows) : RowLabel(k) = d[i].label}
             IN  IF named # {}
                 THEN d[i].phrase = RowPhrase(CHOOSE k \in named : \A m \in named : m <= k)
                 ELSE i <= Len(base) /\ d[i].phrase = base[i].phrase

\* C5 witness: two rows gave the same base label different phrases.
C5_Witness ==
  /\ pc = "ui"
  /\ Len(AppliedRows) = 2
  /\ RowLabel(1) = "General"
  /\ RowLabel(2) = "General"
  /\ RowPhrase(1) # RowPhrase(2)

\* ------------------------------------------------ the table of embeddings
\* Within one script run the augmentation is complete before the embeddings
\* are computed, they are computed once in that run, from that run's final
\* CategorySet, and no later step of the run changes the CategorySet,
\* domain_names or domain_embeddings.
OneTablePerRun ==
  /\ [](pc \notin AfterEncode => (domain_embeddings = <<>> /\ computed = run - 1))
  /\ [](pc \in AfterEncode =>
          /\ computed = run
          /\ AGRI_DOMAINS = ApplyRows(BaseDomains(script), df_csv, AppliedRows)
          /\ domain_names = Keys(AGRI_DOMAINS)
          /\ domain_embeddings = EncodeAll(weights, Values(AGRI_DOMAINS)))
  /\ [][(pc \in AfterEncode /\ pc' \in AfterEncode) => UNCHANGED globalVars]_vars

\* C7: the embeddings are computed once, at startup, so every classification
\* of the process, whatever the sequence of requests, reads the same table.
C7_ComputedOnceSameTable ==
  /\ computed <= 1
  /\ Cardinality(tablesRead) <= 1

\* ------------------------------------------------------------ the request
\* The positions of the log that hold a call of the given kind.
At(op) == {i \in 1..Len(log) : log[i].op = op}

\* The calls that come after the classification in a request.
LaterCalls == {"classify", "search", "summarize", "display", "speak"}

\* C6: when embedding the question fails, the run ends there: the embedding
\* was tried once, no label was returned, and nothing was searched,
\* summarized, shown or spoken.
C6_EmbeddingFailurePropagates ==
  \A i \in At("encode") :
    log[i].reply = "raised" =>
      /\ i = Len(log)
      /\ pc = "crashed"
      /\ crashedAt = "classify"
      /\ domain = Nil
      /\ results = <<>>
      /\ summary_en = <<>>
      /\ summary_out = <<>>
      /\ Cardinality(At("encode")) = 1
      /\ \A j \in 1..Len(log) : log[j].op \notin LaterCalls

\* C6 witness: the embedding of a translated question failed.
C6_Witness ==
  /\ crashedAt = "classify"
  /\ translated = Translated(user_q)
  /\ log # <<>>
  /\ log[Len(log)].op = "encode"
  /\ log[Len(log)].reply = "raised"

\* The order of the calls of a request that ran to its end.
StepsOf(s, twoSearches, spoken) ==
  << "translate", "encode", "classify", "search" >>
    \o (IF twoSearches THEN << "search" >> ELSE <<>>)
    \o << "summarize", "translate", "display" >>
    \o (IF spoken THEN << "speak" >> ELSE <<>>)

LogOps == [i \in 1..Len(log) |-> log[i].op]

IsPrefix(p, q) == Len(p) <= Len(q) /\ p = SubSeq(q, 1, Len(p))

\* A blank question starts nothing; the calls made so far are the first calls
\* of the order, and each reads what the call before it returned.
StepsInOrder ==
  /\ IsBlank(user_q) =>
       (log = <<>> /\ domain = Nil /\ pc \notin (AfterEncode \ {"ui", "done"}))
  /\ \E two, spoken \in BOOLEAN : IsPrefix(LogOps, StepsOf(script, two, spoken))
  /\ \A i \in 1..Len(log) :
       LET e == log[i]
       IN  /\ (e.op = "translate" /\ i = 1) =>
                (e.text = user_q /\ e.out = translated /\ e.label = "en")
           /\ e.op \in {"encode", "classify"} => e.text = log[1].out
           /\ (e.op = "classify") => domain = Some(e.label)
           /\ e.op = "search" => (e.text = log[1].out /\ At("classify") # {})
           /\ e.op = "summarize" =>
                /\ log[i - 1].op = "search"
                /\ e.items = log[i - 1].items
                /\ e.out = Summarizer(script, Snippets(log[i - 1].items))
           /\ (e.op = "translate" /\ i > 1) =>
                (log[i - 1].op = "summarize" /\ e.text = log[i - 1].out
                 /\ e.label = "user")
           /\ e.op = "display" =>
                /\ log[i - 1].op = "translate"
                /\ e.text = log[i - 1].out
                /\ e.items = log[i - 2].items
           /\ e.op = "speak" =>
                /\ log[i - 1].op = "display"
                /\ e.text = (IF script = "app" THEN log[i - 1].text \o SpeakSuffix
                             ELSE log[i - 1].text)
  /\ (pc = "done" /\ log # <<>>) => At("display") # {}

\* C8 (as amended): the steps of a request are in the stated order, and the
\* summary is displayed and then spoken, except that app.py speaks only when
\* the Polly client exists (and then adds a closing sentence to what it speaks).
C8_StepsInOrderSpokenIfClient ==
  /\ StepsInOrder
  /\ (pc = "done" /\ log # <<>>) =>
       (At("speak") # {} <=> (script = "farmq" \/ polly_client))

\* C8 witness: a request ran to its end with a translated question and a
\* translated, spoken summary of search results.
C8_Witness ==
  /\ pc = "done"
  /\ translated = Translated(user_q)
  /\ results # <<>>
  /\ summary_out = Translated(summary_en)
  /\ At("speak") # {}

\* C8 (as claimed): the steps of a request are in the stated order, and every
\* request that runs to its end displays and speaks the summary.
C8_StepsInOrderAlwaysSpoken ==
  /\ StepsInOrder
  /\ (pc = "done" /\ log # <<>>) => At("speak") # {}

\* C9: a translation that fails returns the text it was given, a search
\* without a key or that fails returns no results, and neither ends the
\* request: after a search the request goes on to the summarizer.
C9_TranslationAndSearchNeverAbort ==
  /\ crashedAt \notin {"translate", "search"}
  /\ \A i \in 1..Len(log) :
       /\ (log[i].op = "translate" /\ log[i].reply = "raised")
            => log[i].out = log[i].text
       /\ (log[i].op = "search" /\ log[i].reply \in {"not called", "raised"})
            => log[i].items = <<>>
  /\ (At("search") # {} /\ pc \notin {"search", "search_fallback"})
       => pc \in {"summarize", "translate_back", "display", "speak", "done"}

\* C10: app.py searches at most twice, the second time exactly when the first
\* search returned nothing; the summary and the links come from the same final
\* list, which holds at most 5 results, each with a non-empty link.
C10_FallbackSearchAndFinalList ==
  script = "app" =>
    /\ Cardinality(At("search")) <= 2
    /\ \A i \in At("search") :
         /\ log[i].label = (IF \A j \in At("search") : i <= j
                            THEN "boosters" ELSE "fallback")
         /\ log[i].label = "fallback" => (log[i - 1].op = "search" /\ log[i - 1].items = <<>>)
         /\ (log[i].label = "boosters" /\ log[i].items = <<>> /\ pc # "search_fallback")
              => (i < Len(log) /\ log[i + 1].op = "search")
         /\ Len(log[i].items) <= Num
         /\ \A k \in 1..Len(log[i].items) : log[i].items[k].link # ""
    /\ \A i \in At("summarize") : log[i].items = results
    /\ \A i \in At("display") :
         /\ log[i].items = results
         /\ \E j \in At("summarize") : log[j].items = log[i].items
    /\ Len(results) <= Num
    /\ \A k \in 1..Len(results) : results[k].link # ""

\* C10 witness: the boosters search returned nothing, the fallback search
\* returned a full list, and the request showed its summary and links.
C10_Witness ==
  /\ script = "app"
  /\ Cardinality(At("search")) = 2
  /\ Len(results) = Num
  /\ At("display") # {}

====
